---- MODULE Spec2Model ----
(***************************************************************************)
(* Model of src/app.py: the usage-history store (class UsageHistory), its  *)
(* JSON persistence and statistics, the reconciliation handler             *)
(* App._run_calculation, and the sorting of the lists it builds.           *)
(*                                                                         *)
(* Text is modelled as sequences of one-character strings, Python's None   *)
(* as NoneCell, floats as integers (the cell alphabet below only spells    *)
(* integral values), the dict self.data as a sequence of entries in        *)
(* insertion order, and the JSON file as a sequence of tokens.             *)
(***************************************************************************)
EXTENDS Integers, Sequences, FiniteSets, TLC

VARIABLES
    data,           \* UsageHistory.data: <<[code, name, records]>> in insertion order
    file,           \* contents of usage_history.json: Missing or a token sequence
    pc,             \* position inside the running UsageHistory method
    pending,        \* add_records: rows of schedule_rows not yet visited
    cur_date,       \* add_records: record_date of the running call
    dirty,          \* number of steps that changed data since the last _save
    raised,         \* TRUE iff the last UsageHistory() construction raised
    last,           \* the operation that acted last, with its arguments and result
    surplus_data,   \* App.surplus_data
    shortage_data,  \* App.shortage_data
    stats_data,     \* App.stats_data
    inv_dict,       \* _run_calculation: inv_dict of the last completed run
    sch_dict,       \* _run_calculation: sch_dict of the last completed run
    inv_rows,       \* _run_calculation: inv_rows of the last completed run
    sch_rows,       \* _run_calculation: sch_rows of the last completed run
    surplus_sort_col,   \* App.surplus_sort_col
    surplus_sort_asc,   \* App.surplus_sort_asc
    shortage_sort_col,  \* App.shortage_sort_col
    shortage_sort_asc,  \* App.shortage_sort_asc
    stats_sort_col,     \* App.stats_sort_col
    stats_sort_asc,     \* App.stats_sort_asc
    shown,          \* per list, the column and direction of the sort applied to it last
    clicks,         \* number of header and toolbar clicks so far
    seen_headers,   \* the headers of the two files at the last _run_calculation call
    inventory_path, \* App.inventory_path
    schedule_path,  \* App.schedule_path
    runs            \* number of _run_calculation calls so far

vars == <<data, file, pc, pending, cur_date, dirty, raised, last,
          surplus_data, shortage_data, stats_data, inv_dict, sch_dict,
          inventory_path, schedule_path, runs, inv_rows, sch_rows,
          surplus_sort_col, surplus_sort_asc, shortage_sort_col,
          shortage_sort_asc, stats_sort_col, stats_sort_asc, shown, seen_headers, clicks>>

sortVars == <<surplus_sort_col, surplus_sort_asc, shortage_sort_col,
              shortage_sort_asc, stats_sort_col, stats_sort_asc>>

appVars == <<surplus_data, shortage_data, stats_data, inv_dict, sch_dict,
             inventory_path, schedule_path, runs, inv_rows, sch_rows,
             sortVars, shown, seen_headers, clicks>>

storeVars == <<data, file, pc, pending, cur_date, dirty, raised>>

----------------------------------------------------------------------------
(* Bounds *)

MaxBatch == 2       \* rows in one add_records batch
MaxRecs  == 2       \* observations kept per code before add_records is cut off
MaxInvRows == 2     \* rows of the inventory snapshot
MaxSchRows == 2     \* rows of the schedule snapshot
MaxRuns == 1        \* _run_calculation calls in one session on any files
MaxViewRuns == 2    \* _run_calculation calls in one session with sorting
MaxClicks == 2      \* header and toolbar clicks in one session

----------------------------------------------------------------------------
(* Text and numbers *)

NoneCell == <<"<None>">>

\* the character U+FF0C (full-width comma)
FullWidthComma == "<U+FF0C>"

Range(s) == {s[i] : i \in 1..Len(s)}

\* str(value) for a csv cell: a string is itself, None becomes "None"
Str(value) == IF value = NoneCell THEN <<"N", "o", "n", "e">> ELSE value

RECURSIVE LStrip(_)
LStrip(s) == IF s # <<>> /\ Head(s) = " " THEN LStrip(Tail(s)) ELSE s

RECURSIVE RStrip(_)
RStrip(s) == IF s # <<>> /\ s[Len(s)] = " " THEN RStrip(SubSeq(s, 1, Len(s) - 1)) ELSE s

\* str.strip()
Strip(s) == RStrip(LStrip(s))

\* str.replace(c, "")
Remove(s, c) == SelectSeq(s, LAMBDA x : x # c)

Digits == <<"0", "1", "2", "3", "4", "5", "6", "7", "8", "9">>

IsDigit(c) == \E i \in 1..10 : Digits[i] = c

DigitVal(c) == (CHOOSE i \in 1..10 : Digits[i] = c) - 1

RECURSIVE DigitsToNat(_)
DigitsToNat(s) ==
    IF s = <<>> THEN 0
    ELSE 10 * DigitsToNat(SubSeq(s, 1, Len(s) - 1)) + DigitVal(s[Len(s)])

RECURSIVE NatToDigits(_)
NatToDigits(n) ==
    IF n < 10 THEN <<Digits[n + 1]>>
    ELSE NatToDigits(n \div 10) \o <<Digits[(n % 10) + 1]>>

AllDigits(s) == s # <<>> /\ \A i \in 1..Len(s) : IsDigit(s[i])

\* float(s) on text spelling an optionally signed run of digits;
\* ok = FALSE is ValueError
ParseFloat(s) ==
    IF AllDigits(s) THEN [ok |-> TRUE, val |-> DigitsToNat(s)]
    ELSE IF s # <<>> /\ Head(s) = "-" /\ AllDigits(Tail(s))
         THEN [ok |-> TRUE, val |-> 0 - DigitsToNat(Tail(s))]
         ELSE [ok |-> FALSE, val |-> 0]

\* the longest run of digits s starts with
RECURSIVE LeadingDigits(_)
LeadingDigits(s) ==
    IF s # <<>> /\ IsDigit(Head(s)) THEN <<Head(s)>> \o LeadingDigits(Tail(s)) ELSE <<>>

\* mutant: text float() rejects is read up to its first non-digit
to_number_Lenient(value) ==
    IF value = NoneCell THEN 0
    ELSE LET s == Strip(Remove(Remove(Str(value), ","), FullWidthComma))
         IN  IF s = <<>> THEN 0
             ELSE IF ParseFloat(s).ok THEN ParseFloat(s).val
             ELSE DigitsToNat(LeadingDigits(s))

to_number(value) ==
    IF value = NoneCell THEN 0
    ELSE LET s == Strip(Remove(Remove(Str(value), ","), FullWidthComma))
         IN  IF s = <<>> THEN 0
             ELSE IF ParseFloat(s).ok THEN ParseFloat(s).val ELSE 0

\* code point order of the characters that occur in dates
Ord(c) == IF IsDigit(c) THEN 48 + DigitVal(c) ELSE 45

\* Python's < on str
RECURSIVE StrLess(_, _)
StrLess(a, b) ==
    IF b = <<>> THEN FALSE
    ELSE IF a = <<>> THEN TRUE
    ELSE IF Head(a) = Head(b) THEN StrLess(Tail(a), Tail(b))
    ELSE Ord(Head(a)) < Ord(Head(b))

----------------------------------------------------------------------------
(* UsageHistory: the in-memory store *)

Codes(d) == {d[i].code : i \in 1..Len(d)}

\* position of code in the dict d, 0 if absent
IndexOf(d, code) ==
    IF code \in Codes(d) THEN CHOOSE i \in 1..Len(d) : d[i].code = code ELSE 0

\* position of the first record of recs dated date, 0 if there is none
FirstAt(recs, date) ==
    IF \E j \in 1..Len(recs) : recs[j].date = date
    THEN CHOOSE j \in 1..Len(recs) :
            /\ recs[j].date = date
            /\ \A k \in 1..(j - 1) : recs[k].date # date
    ELSE 0

\* mutant: the search is skipped and every row appends
UpsertRecord_Append(recs, date, qty) ==
    Append(recs, [date |-> date, quantity |-> qty])

\* mutant: a found record accumulates the quantity instead of taking it
UpsertRecord_Accumulate(recs, date, qty) ==
    IF FirstAt(recs, date) # 0
    THEN [recs EXCEPT ![FirstAt(recs, date)].quantity = @ + qty]
    ELSE Append(recs, [date |-> date, quantity |-> qty])

\* the records list after the search loop of add_records
UpsertRecord(recs, date, qty) ==
    IF FirstAt(recs, date) # 0
    THEN [recs EXCEPT ![FirstAt(recs, date)].quantity = qty]
    ELSE Append(recs, [date |-> date, quantity |-> qty])

\* mutant: the name of a stored code is not updated
UpsertRow_KeepName(d, row, date) ==
    LET code == Strip(Str(row.code))
        name == Str(row.name)
        qty  == to_number(row.qty)
        d1   == IF code \in Codes(d) THEN d
                ELSE Append(d, [code |-> code, name |-> name, records |-> <<>>])
        i    == IndexOf(d1, code)
    IN  IF code = <<>> THEN d
        ELSE [d1 EXCEPT ![i].records = UpsertRecord(d1[i].records, date, qty)]

\* mutant: a row whose code is blank is stored like any other
UpsertRow_NoSkip(d, row, date) ==
    LET code == Strip(Str(row.code))
        name == Str(row.name)
        qty  == to_number(row.qty)
        d1   == IF code \in Codes(d) THEN d
                ELSE Append(d, [code |-> code, name |-> name, records |-> <<>>])
        i    == IndexOf(d1, code)
    IN  [d1 EXCEPT ![i].records = UpsertRecord(d1[i].records, date, qty),
                   ![i].name = name]

\* one iteration of the loop of add_records over a schedule row
UpsertRow(d, row, date) ==
    LET code == Strip(Str(row.code))
        name == Str(row.name)
        qty  == to_number(row.qty)
        d1   == IF code \in Codes(d) THEN d
                ELSE Append(d, [code |-> code, name |-> name, records |-> <<>>])
        i    == IndexOf(d1, code)
    IN  IF code = <<>> THEN d
        ELSE [d1 EXCEPT ![i].records = UpsertRecord(d1[i].records, date, qty),
                        ![i].name = name]

\* the loop of add_records over all of schedule_rows
RECURSIVE AddRows(_, _, _)
AddRows(d, rows, date) ==
    IF rows = <<>> THEN d
    ELSE AddRows(UpsertRow(d, Head(rows), date), Tail(rows), date)

DropAt(s, i) == SubSeq(s, 1, i - 1) \o SubSeq(s, i + 1, Len(s))

\* mutant: a code left without records stays in the dict
DeleteFrom_KeepEmpty(d, code, date) ==
    LET i    == IndexOf(d, code)
        kept == SelectSeq(d[i].records, LAMBDA r : r.date # date)
    IN  IF i = 0 THEN d
        ELSE [d EXCEPT ![i].records = kept]

\* self.data after delete_record(code, record_date)
DeleteFrom(d, code, date) ==
    LET i    == IndexOf(d, code)
        kept == SelectSeq(d[i].records, LAMBDA r : r.date # date)
    IN  IF i = 0 THEN d
        ELSE IF kept = <<>> THEN DropAt(d, i)
        ELSE [d EXCEPT ![i].records = kept]

get_record_count(d) ==
    Cardinality(UNION {{d[i].records[j].date : j \in 1..Len(d[i].records)} :
                       i \in 1..Len(d)})

----------------------------------------------------------------------------
(* json.dump / json.load on the store, token by token *)

Tok(t, v) == [t |-> t, v |-> v]
P(t) == Tok(t, <<>>)

Missing == <<Tok("missing", <<>>)>>

KeyName     == <<"n", "a", "m", "e">>
KeyRecords  == <<"r", "e", "c", "o", "r", "d", "s">>
KeyDate     == <<"d", "a", "t", "e">>
KeyQuantity == <<"q", "u", "a", "n", "t", "i", "t", "y">>

\* mutant: quotes and backslashes are written unescaped
Escape_Raw(s) == s

\* the body of a JSON string literal for s
RECURSIVE Escape(_)
Escape(s) ==
    IF s = <<>> THEN <<>>
    ELSE IF Head(s) \in {"\"", "\\"} THEN <<"\\", Head(s)>> \o Escape(Tail(s))
    ELSE <<Head(s)>> \o Escape(Tail(s))

\* the character c in front of the decoded rest r
Decoded(c, r) == [ok |-> r.ok, val |-> <<c>> \o r.val]

\* the string a JSON string literal body denotes; ok = FALSE is a bad literal
RECURSIVE Unescape(_)
Unescape(s) ==
    IF s = <<>> THEN [ok |-> TRUE, val |-> <<>>]
    ELSE IF Head(s) = "\"" THEN [ok |-> FALSE, val |-> <<>>]
    ELSE IF Head(s) = "\\" /\ (Len(s) < 2 \/ s[2] \notin {"\"", "\\"})
         THEN [ok |-> FALSE, val |-> <<>>]
    ELSE Decoded(IF Head(s) = "\\" THEN s[2] ELSE Head(s),
                 Unescape(IF Head(s) = "\\" THEN Tail(Tail(s)) ELSE Tail(s)))

\* float.__repr__ of an integral float
FloatRepr(n) ==
    (IF n < 0 THEN <<"-">> \o NatToDigits(0 - n) ELSE NatToDigits(n)) \o <<".", "0">>

\* the float a JSON number literal denotes
JsonNumber(s) ==
    LET dots == {i \in 1..Len(s) : s[i] = "."}
        dot  == CHOOSE i \in dots : TRUE
        int  == ParseFloat(SubSeq(s, 1, dot - 1))
        frac == SubSeq(s, dot + 1, Len(s))
    IN  IF dots = {} THEN ParseFloat(s)
        ELSE IF Cardinality(dots) = 1 /\ int.ok /\ AllDigits(frac) /\ DigitsToNat(frac) = 0
             THEN int
             ELSE [ok |-> FALSE, val |-> 0]

DumpRecord(r) ==
    << P("{"), Tok("str", Escape(KeyDate)), P(":"), Tok("str", Escape(r.date)), P(","),
       Tok("str", Escape(KeyQuantity)), P(":"), Tok("num", FloatRepr(r.quantity)), P("}") >>

RECURSIVE DumpRecords(_)
DumpRecords(recs) ==
    IF recs = <<>> THEN <<>>
    ELSE IF Len(recs) = 1 THEN DumpRecord(recs[1])
    ELSE DumpRecord(Head(recs)) \o <<P(",")>> \o DumpRecords(Tail(recs))

DumpEntry(e) ==
    << Tok("str", Escape(e.code)), P(":"), P("{"),
       Tok("str", Escape(KeyName)), P(":"), Tok("str", Escape(e.name)), P(","),
       Tok("str", Escape(KeyRecords)), P(":"), P("[") >>
    \o DumpRecords(e.records) \o << P("]"), P("}") >>

RECURSIVE DumpEntries(_)
DumpEntries(d) ==
    IF d = <<>> THEN <<>>
    ELSE IF Len(d) = 1 THEN DumpEntry(d[1])
    ELSE DumpEntry(Head(d)) \o <<P(",")>> \o DumpEntries(Tail(d))

\* the text json.dump(self.data, f, ensure_ascii=False, indent=2) writes
JsonDump(d) == <<P("{")>> \o DumpEntries(d) \o <<P("}")>>

----------------------------------------------------------------------------
(* json.load: a parser for the token text; ok = FALSE is JSONDecodeError *)

At(toks, i) == IF i \in 1..Len(toks) THEN toks[i] ELSE P("eof")

Fail == [ok |-> FALSE, val |-> <<>>, next |-> 0]

\* a string token: u is its decoded body
StringAt(tok, u, i) ==
    IF tok.t = "str" /\ u.ok THEN [ok |-> TRUE, val |-> u.val, next |-> i + 1] ELSE Fail

ParseString(toks, i) == StringAt(At(toks, i), Unescape(At(toks, i).v), i)

\* the tokens from i on are punctuation and keys as in shape ("" = any token)
Shape(toks, i, shape) ==
    \A k \in 1..Len(shape) :
        \/ shape[k] = <<>>
        \/ /\ Len(shape[k]) = 1
           /\ At(toks, i + k - 1).t = shape[k][1]
        \/ /\ Len(shape[k]) > 1
           /\ At(toks, i + k - 1) = Tok("str", shape[k])

\* {"date": <string>, "quantity": <number>}, dt and q the two values
RecordAt(toks, i, dt, q) ==
    IF /\ Shape(toks, i, << <<"{">>, KeyDate, <<":">>, <<>>, <<",">>,
                            KeyQuantity, <<":">>, <<"num">>, <<"}">> >>)
       /\ dt.ok
       /\ q.ok
    THEN [ok |-> TRUE, val |-> [date |-> dt.val, quantity |-> q.val], next |-> i + 9]
    ELSE Fail

ParseRecord(toks, i) ==
    RecordAt(toks, i, ParseString(toks, i + 3), JsonNumber(At(toks, i + 7).v))

\* the elements of a non-empty array and its closing bracket, r the first
RECURSIVE ParseElements(_, _, _)
ElementsAt(toks, acc, r) ==
    IF ~r.ok THEN Fail
    ELSE IF At(toks, r.next).t = ","
         THEN ParseElements(toks, r.next + 1, Append(acc, r.val))
    ELSE IF At(toks, r.next).t = "]"
         THEN [ok |-> TRUE, val |-> Append(acc, r.val), next |-> r.next + 1]
    ELSE Fail

ParseElements(toks, i, acc) == ElementsAt(toks, acc, ParseRecord(toks, i))

ParseArray(toks, i) ==
    IF At(toks, i).t # "[" THEN Fail
    ELSE IF At(toks, i + 1).t = "]" THEN [ok |-> TRUE, val |-> <<>>, next |-> i + 2]
    ELSE ParseElements(toks, i + 1, <<>>)

\* "<code>": {"name": <string>, "records": <array>}, code, name and recs
\* the three values
EntryAt(toks, i, code, name, recs) ==
    IF /\ Shape(toks, i, << <<>>, <<":">>, <<"{">>, KeyName, <<":">>, <<>>, <<",">>,
                            KeyRecords, <<":">> >>)
       /\ code.ok
       /\ name.ok
       /\ recs.ok
       /\ At(toks, recs.next).t = "}"
    THEN [ok |-> TRUE,
          val |-> [code |-> code.val, name |-> name.val, records |-> recs.val],
          next |-> recs.next + 1]
    ELSE Fail

ParseEntry(toks, i) ==
    EntryAt(toks, i, ParseString(toks, i), ParseString(toks, i + 5), ParseArray(toks, i + 9))

\* the members of a non-empty object and its closing brace, r the first
RECURSIVE ParseMembers(_, _, _)
MembersAt(toks, acc, r) ==
    IF ~r.ok THEN Fail
    ELSE IF At(toks, r.next).t = ","
         THEN ParseMembers(toks, r.next + 1, Append(acc, r.val))
    ELSE IF At(toks, r.next).t = "}"
         THEN [ok |-> TRUE, val |-> Append(acc, r.val), next |-> r.next + 1]
    ELSE Fail

ParseMembers(toks, i, acc) == MembersAt(toks, acc, ParseEntry(toks, i))

ParseObject(toks) ==
    IF At(toks, 1).t # "{" THEN Fail
    ELSE IF At(toks, 2).t = "}" THEN [ok |-> TRUE, val |-> <<>>, next |-> 3]
    ELSE ParseMembers(toks, 2, <<>>)

\* the whole text must be one value
Whole(toks, r) == IF r.ok /\ r.next = Len(toks) + 1 THEN r ELSE Fail

\* json.load(f)
JsonLoad(toks) == Whole(toks, ParseObject(toks))

\* mutant: no try/except around json.load
LoadResult_NoExcept(f, r) ==
    IF f = Missing THEN [raised |-> FALSE, data |-> <<>>]
    ELSE IF r.ok THEN [raised |-> FALSE, data |-> r.val]
    ELSE [raised |-> TRUE, data |-> <<>>]

\* the return of UsageHistory._load, r the result of json.load; raised = TRUE
\* would be an exception leaving _load
LoadResult(f, r) ==
    IF f = Missing THEN [raised |-> FALSE, data |-> <<>>]
    ELSE IF r.ok THEN [raised |-> FALSE, data |-> r.val]
    ELSE [raised |-> FALSE, data |-> <<>>]

\* UsageHistory._load
load(f) == LoadResult(f, JsonLoad(f))

\* what UsageHistory._save leaves in the file
save(d) == JsonDump(d)

----------------------------------------------------------------------------
(* Statistics *)

\* list.sort / sorted: the stable sort of s, where <<a, b>> \in before iff
\* the key of a orders strictly before the key of b; equal keys keep their order
StableSort(s, before) ==
    LET n == Len(s)
        rank(i) == 1 + Cardinality({j \in 1..n :
                        \/ <<s[j], s[i]>> \in before
                        \/ (j < i /\ <<s[i], s[j]>> \notin before)})
    IN  [k \in 1..n |-> s[CHOOSE i \in 1..n : rank(i) = k]]

RECURSIVE SumOf(_)
SumOf(qs) == IF qs = <<>> THEN 0 ELSE Head(qs) + SumOf(Tail(qs))

Quantities(recs) == [j \in 1..Len(recs) |-> recs[j].quantity]

\* sum((q - mean) ** 2), scaled by n * n to stay integral
SquaredDeviations(qs) ==
    LET n == Len(qs)
    IN  SumOf([j \in 1..n |-> (n * qs[j] - SumOf(qs)) * (n * qs[j] - SumOf(qs))])

\* mutant: the variance is divided by n instead of n - 1
Summary_Population(e) ==
    LET qs == Quantities(e.records)
        n  == Len(qs)
        sorted_recs == StableSort(e.records,
                          {p \in Range(e.records) \X Range(e.records) : StrLess(p[1].date, p[2].date)})
    IN  [code |-> e.code,
         name |-> e.name,
         count |-> n,
         mean_num |-> SumOf(qs),
         var_num |-> IF n >= 2 THEN SquaredDeviations(qs) ELSE 0,
         var_den |-> IF n >= 2 THEN n * n * n ELSE 1,
         min |-> CHOOSE q \in Range(qs) : \A r \in Range(qs) : q <= r,
         max |-> CHOOSE q \in Range(qs) : \A r \in Range(qs) : q >= r,
         latest_date |-> sorted_recs[n].date,
         latest_qty |-> sorted_recs[n].quantity]

\* mutant: the latest observation is the one inserted last
Summary_LastInserted(e) ==
    LET qs == Quantities(e.records)
        n  == Len(qs)
    IN  [code |-> e.code,
         name |-> e.name,
         count |-> n,
         mean_num |-> SumOf(qs),
         var_num |-> IF n >= 2 THEN SquaredDeviations(qs) ELSE 0,
         var_den |-> IF n >= 2 THEN n * n * (n - 1) ELSE 1,
         min |-> CHOOSE q \in Range(qs) : \A r \in Range(qs) : q <= r,
         max |-> CHOOSE q \in Range(qs) : \A r \in Range(qs) : q >= r,
         latest_date |-> e.records[n].date,
         latest_qty |-> e.records[n].quantity]

\* one summary of get_statistics; mean = mean_num / count and
\* stddev = sqrt(var_num / var_den)
Summary(e) ==
    LET qs == Quantities(e.records)
        n  == Len(qs)
        sorted_recs == StableSort(e.records,
                          {p \in Range(e.records) \X Range(e.records) : StrLess(p[1].date, p[2].date)})
    IN  [code |-> e.code,
         name |-> e.name,
         count |-> n,
         mean_num |-> SumOf(qs),
         var_num |-> IF n >= 2 THEN SquaredDeviations(qs) ELSE 0,
         var_den |-> IF n >= 2 THEN n * n * (n - 1) ELSE 1,
         min |-> CHOOSE q \in Range(qs) : \A r \in Range(qs) : q <= r,
         max |-> CHOOSE q \in Range(qs) : \A r \in Range(qs) : q >= r,
         latest_date |-> sorted_recs[n].date,
         latest_qty |-> sorted_recs[n].quantity]

RECURSIVE get_statistics(_)
get_statistics(d) ==
    IF d = <<>> THEN <<>>
    ELSE IF Head(d).records = <<>> THEN get_statistics(Tail(d))
    ELSE <<Summary(Head(d))>> \o get_statistics(Tail(d))

\* get_detail(code): sorted(records, key=date) of the code's records, or []
\* for a code the store does not have
get_detail(d, code) ==
    LET records == IF code \in Codes(d) THEN d[IndexOf(d, code)].records ELSE <<>>
    IN  StableSort(records,
                   {p \in Range(records) \X Range(records) : StrLess(p[1].date, p[2].date)})

----------------------------------------------------------------------------
(* Inputs *)

Date1 == <<"2", "0", "2", "6", "-", "0", "1", "-", "0", "9">>
Date2 == <<"2", "0", "2", "6", "-", "0", "1", "-", "1", "0">>
Dates == {Date1, Date2}

SchRow(code, name, price, qty) == [code |-> code, name |-> name, price |-> price, qty |-> qty]

\* rows of a schedule file, as csv.DictReader delivers them (the second has
\* an empty price cell)
ScheduleRows ==
    { SchRow(<<"A">>, <<"x">>, <<"5">>, <<"1", "0">>),
      SchRow(<<"A">>, <<"y", "\"">>, <<>>, <<"2", "0">>),
      SchRow(<<" ", "B", " ">>, <<"x">>, <<"2">>, <<"1", ",", "0", "0", "0">>),
      SchRow(<<" ">>, <<"y", "\"">>, <<"5">>, <<"2", "0">>) }

Batches == UNION {[1..n -> ScheduleRows] : n \in 0..MaxBatch}

\* codes delete_record is called with
DeleteCodes == {<<"A">>, <<"B">>, <<"C">>}

----------------------------------------------------------------------------
(* UsageHistory: the operations, step by step *)

\* None as the value of a sort column
NoCol == "<None>"

\* a list no sort was applied to since it was built
NoSort == [col |-> NoCol, asc |-> TRUE]

NoArgs == [op |-> "none", code |-> <<>>, date |-> <<>>, found |-> FALSE, out |-> <<>>]

Init ==
    /\ file \in {Missing, <<>>, <<P("{")>>}
    /\ data = load(file).data
    /\ raised = load(file).raised
    /\ pc = "idle"
    /\ pending = <<>>
    /\ cur_date = <<>>
    /\ dirty = 0
    /\ last = [NoArgs EXCEPT !.op = "construct"]
    /\ surplus_data = <<>>
    /\ shortage_data = <<>>
    /\ stats_data = get_statistics(data)
    /\ inv_dict = <<>>
    /\ sch_dict = <<>>
    /\ inventory_path = NoneCell
    /\ schedule_path = NoneCell
    /\ runs = 0
    /\ inv_rows = <<>>
    /\ sch_rows = <<>>
    /\ surplus_sort_col = NoCol
    /\ surplus_sort_asc = TRUE
    /\ shortage_sort_col = NoCol
    /\ shortage_sort_asc = TRUE
    /\ stats_sort_col = NoCol
    /\ stats_sort_asc = TRUE
    /\ shown = [surplus |-> NoSort, shortage |-> NoSort, stats |-> NoSort]
    /\ seen_headers = [inv |-> {}, sch |-> {}]
    /\ clicks = 0

\* add_records(schedule_rows, ..., record_date): entry
add_records(rows, date) ==
    /\ pc = "idle"
    /\ \A i \in 1..Len(data) : Len(data[i].records) <= MaxRecs
    /\ pc' = IF rows = <<>> THEN "save" ELSE "add_loop"
    /\ pending' = rows
    /\ cur_date' = date
    /\ last' = [NoArgs EXCEPT !.op = "add_records", !.date = date]
    /\ UNCHANGED <<data, file, dirty, raised>>
    /\ UNCHANGED appVars

\* add_records: one iteration of the loop
AddRow ==
    /\ pc = "add_loop"
    /\ LET row  == Head(pending)
           code == Strip(Str(row.code))
       IN  /\ data' = UpsertRow(data, row, cur_date)
           /\ dirty' = IF UpsertRow(data, row, cur_date) = data THEN dirty ELSE dirty + 1
           /\ last' = [op |-> IF code = <<>> THEN "skip" ELSE "upsert",
                       code |-> code, date |-> cur_date,
                       found |-> /\ code \in Codes(data)
                                 /\ FirstAt(data[IndexOf(data, code)].records, cur_date) # 0,
                       out |-> <<>>]
    /\ pending' = Tail(pending)
    /\ pc' = IF Tail(pending) = <<>> THEN "save" ELSE "add_loop"
    /\ UNCHANGED <<file, cur_date, raised>>
    /\ UNCHANGED appVars

\* mutant: delete_record returns without calling _save
delete_record_NoSave(code, date) ==
    /\ pc = "idle"
    /\ data' = DeleteFrom(data, code, date)
    /\ dirty' = IF DeleteFrom(data, code, date) = data THEN dirty ELSE dirty + 1
    /\ pc' = "idle"
    /\ last' = [op |-> "delete", code |-> code, date |-> date, found |-> code \in Codes(data),
                out |-> <<>>]
    /\ UNCHANGED <<file, pending, cur_date, raised>>
    /\ UNCHANGED appVars

\* delete_record(code, record_date) up to its call of _save
delete_record(code, date) ==
    /\ pc = "idle"
    /\ data' = DeleteFrom(data, code, date)
    /\ dirty' = IF DeleteFrom(data, code, date) = data THEN dirty ELSE dirty + 1
    /\ pc' = IF code \in Codes(data) THEN "save" ELSE "idle"
    /\ last' = [op |-> "delete", code |-> code, date |-> date, found |-> code \in Codes(data),
                out |-> <<>>]
    /\ UNCHANGED <<file, pending, cur_date, raised>>
    /\ UNCHANGED appVars

\* clear_all() up to its call of _save
clear_all ==
    /\ pc = "idle"
    /\ data' = <<>>
    /\ dirty' = IF data = <<>> THEN dirty ELSE dirty + 1
    /\ pc' = "save"
    /\ last' = [NoArgs EXCEPT !.op = "clear"]
    /\ UNCHANGED <<file, pending, cur_date, raised>>
    /\ UNCHANGED appVars

\* _save, called last by add_records, delete_record and clear_all:
\* open(self.filepath, "w") truncates the file
SaveOpen ==
    /\ pc = "save"
    /\ file' = <<>>
    /\ pc' = "writing"
    /\ cur_date' = <<>>
    /\ last' = [NoArgs EXCEPT !.op = "open"]
    /\ UNCHANGED <<data, pending, dirty, raised>>
    /\ UNCHANGED appVars

\* _save: json.dump writes the whole store and the method returns
SaveDump ==
    /\ pc = "writing"
    /\ file' = save(data)
    /\ dirty' = 0
    /\ pc' = "idle"
    /\ last' = [NoArgs EXCEPT !.op = "save"]
    /\ UNCHANGED <<data, pending, cur_date, raised>>
    /\ UNCHANGED appVars

\* the process dies inside json.dump after k tokens reached the file; the
\* next process is followed up to the end of its UsageHistory()
\* (pc = "restarted"): from there it is the program started on an unparsable
\* file, as in Init
CrashInSave(k) ==
    /\ pc = "writing"
    /\ k < Len(save(data))
    /\ file' = SubSeq(save(data), 1, k)
    /\ data' = <<>>
    /\ dirty' = 0
    /\ pc' = "down"
    /\ last' = [NoArgs EXCEPT !.op = "crash"]
    /\ UNCHANGED <<pending, cur_date, raised>>
    /\ UNCHANGED appVars

\* UsageHistory(): a new store object read from the file
Construct ==
    /\ pc \in {"idle", "down"}
    /\ data' = load(file).data
    /\ raised' = load(file).raised
    /\ dirty' = 0
    /\ pc' = IF pc = "down" THEN "restarted" ELSE "idle"
    /\ last' = [NoArgs EXCEPT !.op = "construct"]
    /\ UNCHANGED <<file, pending, cur_date>>
    /\ UNCHANGED appVars

Next ==
    \/ \E rows \in Batches, date \in Dates : add_records(rows, date)
    \/ AddRow
    \/ \E code \in DeleteCodes, date \in Dates : delete_record(code, date)
    \/ clear_all
    \/ SaveOpen
    \/ SaveDump
    \/ Construct

Spec == Init /\ [][Next]_vars

\* mutant: get_detail sorts the code's list in place and returns it
GetDetail_InPlace(code) ==
    /\ pc = "idle"
    /\ data' = IF code \in Codes(data)
               THEN [data EXCEPT ![IndexOf(data, code)].records = get_detail(data, code)]
               ELSE data
    /\ last' = [NoArgs EXCEPT !.op = "detail", !.code = code, !.out = get_detail(data, code)]
    /\ UNCHANGED <<file, pc, pending, cur_date, dirty, raised>>
    /\ UNCHANGED appVars

\* a call of get_detail(code); last.out is the list it returns
GetDetail(code) ==
    /\ pc = "idle"
    /\ last' = [NoArgs EXCEPT !.op = "detail", !.code = code, !.out = get_detail(data, code)]
    /\ UNCHANGED storeVars
    /\ UNCHANGED appVars

\* a third day, earlier than the other two
Date3 == <<"2", "0", "2", "5", "-", "1", "2", "-", "3", "1">>

StatsDates == {Date1, Date2, Date3}

\* schedule rows of one item on different days, and of a second item
StatsRows ==
    { SchRow(<<"A">>, <<"x">>, <<"5">>, <<"1", "0">>),
      SchRow(<<"A">>, <<"x">>, <<"5">>, <<"2", "0">>),
      SchRow(<<"A">>, <<"x">>, <<"5">>, <<"3", "0">>),
      SchRow(<<"B">>, <<"x">>, <<"2">>, <<"1", ",", "0", "0", "0">>) }

\* a store filled one schedule row a day, on three days in any order, and
\* asked for its details
NextStats ==
    \/ \E row \in StatsRows, date \in StatsDates : add_records(<<row>>, date)
    \/ AddRow
    \/ \E date \in StatsDates : delete_record(<<"A">>, date)
    \/ \E code \in DeleteCodes : GetDetail(code)
    \/ SaveOpen
    \/ SaveDump

SpecStats == Init /\ [][NextStats]_vars

----------------------------------------------------------------------------
(* App: reconciliation *)

\* column names of the two csv files
inv_key == "inv:code"
sch_key == "sch:code"
required_inv == {inv_key, "inv:name", "inv:unit", "inv:stock"}
required_sch == {sch_key, "sch:name", "sch:price", "sch:qty"}

InvRow(code, name, unit, stock) == [code |-> code, name |-> name, unit |-> unit, stock |-> stock]

\* rows of an inventory file, as csv.DictReader delivers them (a row shorter
\* than the header has None for its stock)
InventoryRows ==
    { InvRow(<<"A">>, <<"a">>, <<"u">>, <<"5">>),
      InvRow(<<"A", " ">>, <<"b">>, <<"u">>, <<"3", "0">>),
      InvRow(<<" ", "B">>, <<"b">>, <<"v">>, <<"1", ",", "0", "0", "0">>),
      InvRow(<<"C">>, <<"c">>, <<"v">>, <<"-", "5">>),
      InvRow(<<"A">>, <<"a">>, <<"u">>, NoneCell) }

CsvFile(ok, headers, rows) == [decodable |-> ok, headers |-> headers, rows |-> rows]

\* what read_csv_auto_encoding finds at inventory_path: a file no encoding
\* decodes, a file without the stock column, or a complete file
InventoryFiles ==
    {CsvFile(FALSE, {}, <<>>), CsvFile(TRUE, required_inv \ {"inv:stock"}, <<>>)}
    \cup {CsvFile(TRUE, required_inv \cup {"inv:other"}, rows) :
            rows \in UNION {[1..n -> InventoryRows] : n \in 0..MaxInvRows}}

\* rows of a schedule file: those above and one whose quantity cell is not
\* a number
ScheduleFileRows ==
    ScheduleRows \cup {SchRow(<<"C">>, <<"x">>, <<"5">>, <<"1", "o">>)}

ScheduleFiles ==
    {CsvFile(FALSE, {}, <<>>), CsvFile(TRUE, required_sch \ {"sch:price"}, <<>>)}
    \cup {CsvFile(TRUE, required_sch, rows) :
            rows \in UNION {[1..n -> ScheduleFileRows] : n \in 0..MaxSchRows}}

\* mutant: a code already in the dict keeps its first row
RECURSIVE BuildDict_FirstWins(_, _)
BuildDict_FirstWins(rows, acc) ==
    IF rows = <<>> THEN acc
    ELSE LET code == Strip(Str(Head(rows).code))
             acc1 == IF code = <<>> \/ IndexOf(acc, code) # 0 THEN acc
                     ELSE Append(acc, [code |-> code, row |-> Head(rows)])
         IN  BuildDict_FirstWins(Tail(rows), acc1)

\* the dict {code: row} built from rows (<<[code, row]>> in insertion order)
RECURSIVE BuildDict(_, _)
BuildDict(rows, acc) ==
    IF rows = <<>> THEN acc
    ELSE LET code == Strip(Str(Head(rows).code))
             i    == IndexOf(acc, code)
             acc1 == IF code = <<>> THEN acc
                     ELSE IF i # 0 THEN [acc EXCEPT ![i].row = Head(rows)]
                     ELSE Append(acc, [code |-> code, row |-> Head(rows)])
         IN  BuildDict(Tail(rows), acc1)

\* mutant: all_codes is a list that may repeat a code
Orders_Repeating(S) == [1..Cardinality(S) -> S]

\* the orders in which "for code in all_codes" can visit the set
Orders(S) ==
    {f \in [1..Cardinality(S) -> S] : \A i, j \in 1..Cardinality(S) : f[i] = f[j] => i = j}

Abs(x) == IF x < 0 THEN 0 - x ELSE x

\* mutant: the surplus test is diff >= 0
Classify_SurplusAtZero(code, invd, schd) ==
    LET has_inv   == code \in Codes(invd)
        has_sch   == code \in Codes(schd)
        inv_row   == invd[IndexOf(invd, code)].row
        sch_row   == schd[IndexOf(schd, code)].row
        stock     == IF has_inv THEN to_number(inv_row.stock) ELSE 0
        scheduled == IF has_sch THEN to_number(sch_row.qty) ELSE 0
        price     == IF has_sch THEN to_number(sch_row.price) ELSE 0
        name      == IF has_inv THEN inv_row.name
                     ELSE IF has_sch THEN sch_row.name ELSE <<>>
        unit      == IF has_inv THEN inv_row.unit ELSE <<>>
        diff      == stock - scheduled
    IN  IF diff >= 0
        THEN [list |-> "surplus",
              entry |-> [code |-> code, name |-> name, unit |-> unit, stock |-> stock,
                         scheduled |-> scheduled, surplus |-> diff, price |-> price]]
        ELSE [list |-> "shortage",
              entry |-> [code |-> code, name |-> name, unit |-> unit, stock |-> stock,
                         scheduled |-> scheduled, shortage |-> Abs(diff), price |-> price,
                         cost |-> Abs(diff) * price]]

\* mutant: the cost is computed from the signed difference
Classify_SignedCost(code, invd, schd) ==
    LET has_inv   == code \in Codes(invd)
        has_sch   == code \in Codes(schd)
        inv_row   == invd[IndexOf(invd, code)].row
        sch_row   == schd[IndexOf(schd, code)].row
        stock     == IF has_inv THEN to_number(inv_row.stock) ELSE 0
        scheduled == IF has_sch THEN to_number(sch_row.qty) ELSE 0
        price     == IF has_sch THEN to_number(sch_row.price) ELSE 0
        name      == IF has_inv THEN inv_row.name
                     ELSE IF has_sch THEN sch_row.name ELSE <<>>
        unit      == IF has_inv THEN inv_row.unit ELSE <<>>
        diff      == stock - scheduled
    IN  IF diff > 0
        THEN [list |-> "surplus",
              entry |-> [code |-> code, name |-> name, unit |-> unit, stock |-> stock,
                         scheduled |-> scheduled, surplus |-> diff, price |-> price]]
        ELSE IF diff < 0
        THEN [list |-> "shortage",
              entry |-> [code |-> code, name |-> name, unit |-> unit, stock |-> stock,
                         scheduled |-> scheduled, shortage |-> Abs(diff), price |-> price,
                         cost |-> diff * price]]
        ELSE [list |-> "none", entry |-> <<>>]

\* the body of the loop over all_codes: what is appended for code, if anything
Classify(code, invd, schd) ==
    LET has_inv   == code \in Codes(invd)
        has_sch   == code \in Codes(schd)
        inv_row   == invd[IndexOf(invd, code)].row
        sch_row   == schd[IndexOf(schd, code)].row
        stock     == IF has_inv THEN to_number(inv_row.stock) ELSE 0
        scheduled == IF has_sch THEN to_number(sch_row.qty) ELSE 0
        price     == IF has_sch THEN to_number(sch_row.price) ELSE 0
        name      == IF has_inv THEN inv_row.name
                     ELSE IF has_sch THEN sch_row.name ELSE <<>>
        unit      == IF has_inv THEN inv_row.unit ELSE <<>>
        diff      == stock - scheduled
    IN  IF diff > 0
        THEN [list |-> "surplus",
              entry |-> [code |-> code, name |-> name, unit |-> unit, stock |-> stock,
                         scheduled |-> scheduled, surplus |-> diff, price |-> price]]
        ELSE IF diff < 0
        THEN [list |-> "shortage",
              entry |-> [code |-> code, name |-> name, unit |-> unit, stock |-> stock,
                         scheduled |-> scheduled, shortage |-> Abs(diff), price |-> price,
                         cost |-> Abs(diff) * price]]
        ELSE [list |-> "none", entry |-> <<>>]

\* surplus_list or shortage_list after the loop visited the codes in order
RECURSIVE Collect(_, _, _, _)
Collect(order, invd, schd, list) ==
    IF order = <<>> THEN <<>>
    ELSE LET c == Classify(Head(order), invd, schd)
         IN  (IF c.list = list THEN <<c.entry>> ELSE <<>>)
             \o Collect(Tail(order), invd, schd, list)

\* surplus_data.sort(key=price, reverse=True), shortage_data.sort(key=cost, reverse=True)
InitialSortSurplus(list) ==
    StableSort(list, {p \in Range(list) \X Range(list) : p[1].price > p[2].price})

\* mutant: the shortage list is sorted without reverse=True
InitialSortShortage_Ascending(list) ==
    StableSort(list, {p \in Range(list) \X Range(list) : p[1].cost < p[2].cost})

InitialSortShortage(list) ==
    StableSort(list, {p \in Range(list) \X Range(list) : p[1].cost > p[2].cost})

_select_inventory ==
    /\ pc = "idle"
    /\ inventory_path' = <<"i">>
    /\ last' = [NoArgs EXCEPT !.op = "select_inventory"]
    /\ UNCHANGED storeVars
    /\ UNCHANGED <<surplus_data, shortage_data, stats_data, inv_dict, sch_dict,
                   schedule_path, runs, inv_rows, sch_rows, sortVars, shown, seen_headers, clicks>>

_select_schedule ==
    /\ pc = "idle"
    /\ schedule_path' = <<"s">>
    /\ last' = [NoArgs EXCEPT !.op = "select_schedule"]
    /\ UNCHANGED storeVars
    /\ UNCHANGED <<surplus_data, shortage_data, stats_data, inv_dict, sch_dict,
                   inventory_path, runs, inv_rows, sch_rows, sortVars, shown, seen_headers, clicks>>

\* mutant: the headers of the schedule are not checked
Aborts_NoScheduleCheck(inv, sch) ==
    \/ inventory_path = NoneCell
    \/ schedule_path = NoneCell
    \/ ~inv.decodable
    \/ ~sch.decodable
    \/ required_inv \ inv.headers # {}

\* _run_calculation returns before computing anything: a path is not
\* selected, a file is not decodable, or a required column is missing
Aborts(inv, sch) ==
    \/ inventory_path = NoneCell
    \/ schedule_path = NoneCell
    \/ ~inv.decodable
    \/ ~sch.decodable
    \/ required_inv \ inv.headers # {}
    \/ required_sch \ sch.headers # {}

\* _run_calculation, with inv and sch the files found at the two paths, order
\* the iteration order of all_codes and date the value of date.today()
_run_calculation(inv, sch, date) ==
    /\ pc = "idle"
    /\ runs' = runs + 1
    /\ seen_headers' = [inv |-> inv.headers, sch |-> sch.headers]
    /\ UNCHANGED <<inventory_path, schedule_path>>
    /\ UNCHANGED sortVars
    /\ IF Aborts(inv, sch)
       THEN /\ last' = [NoArgs EXCEPT !.op = "run_aborted"]
            /\ UNCHANGED storeVars
            /\ UNCHANGED <<surplus_data, shortage_data, stats_data, inv_dict, sch_dict,
                           inv_rows, sch_rows, shown, clicks>>
       ELSE \E invd \in {BuildDict(inv.rows, <<>>)}, schd \in {BuildDict(sch.rows, <<>>)} :
            \E order \in Orders(Codes(invd) \cup Codes(schd)) :
            \E stored \in {save(AddRows(data, sch.rows, date))} :
            \E fresh \in {load(stored)} :
                /\ inv_dict' = invd
                /\ sch_dict' = schd
                /\ inv_rows' = inv.rows
                /\ sch_rows' = sch.rows
                /\ shown' = [surplus  |-> [col |-> "price", asc |-> FALSE],
                             shortage |-> [col |-> "cost", asc |-> FALSE],
                             stats    |-> NoSort]
                /\ surplus_data' = InitialSortSurplus(Collect(order, invd, schd, "surplus"))
                /\ shortage_data' = InitialSortShortage(Collect(order, invd, schd, "shortage"))
                /\ file' = stored
                /\ data' = fresh.data
                /\ raised' = fresh.raised
                /\ stats_data' = get_statistics(fresh.data)
                /\ last' = [NoArgs EXCEPT !.op = "run", !.date = date]
                /\ UNCHANGED <<pc, pending, cur_date, dirty, clicks>>

\* the "refresh statistics" button
_refresh_stats ==
    /\ pc = "idle"
    /\ data' = load(file).data
    /\ raised' = load(file).raised
    /\ stats_data' = get_statistics(load(file).data)
    /\ last' = [NoArgs EXCEPT !.op = "refresh"]
    /\ UNCHANGED <<file, pc, pending, cur_date, dirty>>
    /\ shown' = [shown EXCEPT !.stats = NoSort]
    /\ UNCHANGED <<surplus_data, shortage_data, inv_dict, sch_dict,
                   inventory_path, schedule_path, runs, inv_rows, sch_rows, sortVars,
                   seen_headers, clicks>>

\* _delete_selected_record with code selected in the summary and date in the
\* detail list, confirmed
_delete_selected_record(code, date) ==
    LET stored == IF code \in Codes(data) THEN save(DeleteFrom(data, code, date)) ELSE file
    IN  /\ pc = "idle"
        /\ \E i \in 1..Len(stats_data) : stats_data[i].code = code
        /\ file' = stored
        /\ data' = load(stored).data
        /\ raised' = load(stored).raised
        /\ stats_data' = get_statistics(load(stored).data)
        /\ last' = [op |-> "delete_selected", code |-> code, date |-> date,
                    found |-> code \in Codes(data), out |-> <<>>]
        /\ UNCHANGED <<pc, pending, cur_date, dirty>>
        /\ shown' = [shown EXCEPT !.stats = NoSort]
        /\ UNCHANGED <<surplus_data, shortage_data, inv_dict, sch_dict,
                       inventory_path, schedule_path, runs, inv_rows, sch_rows, sortVars,
                   seen_headers, clicks>>

\* _clear_all_history, confirmed
_clear_all_history ==
    /\ pc = "idle"
    /\ file' = save(<<>>)
    /\ data' = load(save(<<>>)).data
    /\ raised' = load(save(<<>>)).raised
    /\ stats_data' = get_statistics(load(save(<<>>)).data)
    /\ last' = [NoArgs EXCEPT !.op = "clear_history"]
    /\ UNCHANGED <<pc, pending, cur_date, dirty>>
    /\ shown' = [shown EXCEPT !.stats = NoSort]
    /\ UNCHANGED <<surplus_data, shortage_data, inv_dict, sch_dict,
                   inventory_path, schedule_path, runs, inv_rows, sch_rows, sortVars,
                   seen_headers, clicks>>

\* a session in which the calculate button is pressed MaxRuns times, on any
\* files
NextApp ==
    \/ _select_inventory
    \/ _select_schedule
    \/ /\ runs < MaxRuns
       /\ \E inv \in InventoryFiles, sch \in ScheduleFiles, date \in Dates :
             _run_calculation(inv, sch, date)
    \/ _refresh_stats
    \/ \E code \in DeleteCodes, date \in Dates : _delete_selected_record(code, date)
    \/ _clear_all_history

SpecApp == Init /\ [][NextApp]_vars

----------------------------------------------------------------------------
(* App: sorting the lists *)

\* the columns whose headers and toolbar buttons are clicked
SurplusCols  == {"price", "surplus"}
ShortageCols == {"cost", "shortage"}
StatsCols    == {"count", "max"}

\* list.sort(key=lambda r: r.get(col, 0), reverse=not ascending): Python's
\* sort is stable in both directions
SortBy(list, col, ascending) ==
    StableSort(list, {p \in Range(list) \X Range(list) :
                        IF ascending THEN p[1][col] < p[2][col]
                        ELSE p[1][col] > p[2][col]})

\* a toolbar button of the surplus tab: _sort_surplus(col, False)
_sort_surplus(col, ascending) ==
    /\ pc = "idle"
    /\ clicks < MaxClicks
    /\ clicks' = clicks + 1
    /\ surplus_data' = SortBy(surplus_data, col, ascending)
    /\ shown' = [shown EXCEPT !.surplus = [col |-> col, asc |-> ascending]]
    /\ last' = [NoArgs EXCEPT !.op = "toolbar"]
    /\ UNCHANGED storeVars
    /\ UNCHANGED <<shortage_data, stats_data, inv_dict, sch_dict, inventory_path,
                   schedule_path, runs, inv_rows, sch_rows, sortVars, seen_headers>>

\* mutant: a header click always sorts descending
_sort_surplus_toggle_Descending(col) ==
    /\ pc = "idle"
    /\ clicks < MaxClicks
    /\ clicks' = clicks + 1
    /\ surplus_sort_col' = col
    /\ surplus_sort_asc' = FALSE
    /\ surplus_data' = SortBy(surplus_data, col, FALSE)
    /\ shown' = [shown EXCEPT !.surplus = [col |-> col, asc |-> FALSE]]
    /\ last' = [NoArgs EXCEPT !.op = "sort", !.code = <<"surplus">>]
    /\ UNCHANGED storeVars
    /\ UNCHANGED <<shortage_data, stats_data, inv_dict, sch_dict, inventory_path,
                   schedule_path, runs, inv_rows, sch_rows, seen_headers,
                   shortage_sort_col, shortage_sort_asc, stats_sort_col, stats_sort_asc>>

\* a click on the header of column col of the surplus tree
_sort_surplus_toggle(col) ==
    LET asc == IF surplus_sort_col = col THEN ~surplus_sort_asc ELSE FALSE
    IN  /\ pc = "idle"
        /\ clicks < MaxClicks
        /\ clicks' = clicks + 1
        /\ surplus_sort_col' = col
        /\ surplus_sort_asc' = asc
        /\ surplus_data' = SortBy(surplus_data, col, asc)
        /\ shown' = [shown EXCEPT !.surplus = [col |-> col, asc |-> asc]]
        /\ last' = [NoArgs EXCEPT !.op = "sort", !.code = <<"surplus">>]
        /\ UNCHANGED storeVars
        /\ UNCHANGED <<shortage_data, stats_data, inv_dict, sch_dict, inventory_path,
                       schedule_path, runs, inv_rows, sch_rows, seen_headers,
                       shortage_sort_col, shortage_sort_asc, stats_sort_col, stats_sort_asc>>

\* a toolbar button of the shortage tab: _sort_shortage(col, False)
_sort_shortage(col, ascending) ==
    /\ pc = "idle"
    /\ clicks < MaxClicks
    /\ clicks' = clicks + 1
    /\ shortage_data' = SortBy(shortage_data, col, ascending)
    /\ shown' = [shown EXCEPT !.shortage = [col |-> col, asc |-> ascending]]
    /\ last' = [NoArgs EXCEPT !.op = "toolbar"]
    /\ UNCHANGED storeVars
    /\ UNCHANGED <<surplus_data, stats_data, inv_dict, sch_dict, inventory_path,
                   schedule_path, runs, inv_rows, sch_rows, sortVars, seen_headers>>

\* a click on the header of column col of the shortage tree
_sort_shortage_toggle(col) ==
    LET asc == IF shortage_sort_col = col THEN ~shortage_sort_asc ELSE FALSE
    IN  /\ pc = "idle"
        /\ clicks < MaxClicks
        /\ clicks' = clicks + 1
        /\ shortage_sort_col' = col
        /\ shortage_sort_asc' = asc
        /\ shortage_data' = SortBy(shortage_data, col, asc)
        /\ shown' = [shown EXCEPT !.shortage = [col |-> col, asc |-> asc]]
        /\ last' = [NoArgs EXCEPT !.op = "sort", !.code = <<"shortage">>]
        /\ UNCHANGED storeVars
        /\ UNCHANGED <<surplus_data, stats_data, inv_dict, sch_dict, inventory_path,
                       schedule_path, runs, inv_rows, sch_rows, seen_headers,
                       surplus_sort_col, surplus_sort_asc, stats_sort_col, stats_sort_asc>>

\* a click on the header of column col of the statistics tree (col is not
\* the computed column "safety")
_sort_stats_toggle(col) ==
    LET asc == IF stats_sort_col = col THEN ~stats_sort_asc ELSE FALSE
    IN  /\ pc = "idle"
        /\ clicks < MaxClicks
        /\ clicks' = clicks + 1
        /\ stats_sort_col' = col
        /\ stats_sort_asc' = asc
        /\ stats_data' = SortBy(stats_data, col, asc)
        /\ shown' = [shown EXCEPT !.stats = [col |-> col, asc |-> asc]]
        /\ last' = [NoArgs EXCEPT !.op = "sort", !.code = <<"stats">>]
        /\ UNCHANGED storeVars
        /\ UNCHANGED <<surplus_data, shortage_data, inv_dict, sch_dict, inventory_path,
                       schedule_path, runs, inv_rows, sch_rows, seen_headers,
                       surplus_sort_col, surplus_sort_asc, shortage_sort_col,
                       shortage_sort_asc>>

\* the files of the sorting sessions: an inventory without the stock column,
\* a schedule without the price column, and complete files
ViewInventoryFiles ==
    { CsvFile(TRUE, required_inv \ {"inv:stock"}, <<>>),
      CsvFile(TRUE, required_inv,
              << InvRow(<<"A", " ">>, <<"b">>, <<"u">>, <<"3", "0">>),
                 InvRow(<<" ", "B">>, <<"b">>, <<"v">>, <<"1", ",", "0", "0", "0">>),
                 InvRow(<<"C">>, <<"c">>, <<"v">>, <<"-", "5">>) >>),
      CsvFile(TRUE, required_inv,
              << InvRow(<<"A">>, <<"a">>, <<"u">>, <<"5">>),
                 InvRow(<<"C">>, <<"c">>, <<"v">>, <<"-", "5">>) >>) }

ViewScheduleFiles ==
    { CsvFile(TRUE, required_sch \ {"sch:price"}, <<>>),
      CsvFile(TRUE, required_sch,
              << SchRow(<<"A">>, <<"x">>, <<"5">>, <<"1", "0">>) >>) }

\* a session of MaxViewRuns runs over the files above, header clicks and
\* toolbar sorts
NextView ==
    \/ _select_inventory
    \/ _select_schedule
    \/ /\ runs < MaxViewRuns
       /\ \E inv \in ViewInventoryFiles, sch \in ViewScheduleFiles :
             _run_calculation(inv, sch, Date1)
    \/ \E col \in SurplusCols : _sort_surplus(col, FALSE)
    \/ \E col \in SurplusCols : _sort_surplus_toggle(col)
    \/ \E col \in ShortageCols : _sort_shortage(col, FALSE)
    \/ \E col \in ShortageCols : _sort_shortage_toggle(col)
    \/ \E col \in StatsCols : _sort_stats_toggle(col)

SpecView == Init /\ [][NextView]_vars

NextCrash ==
    \/ Next
    \/ \E k \in 0..(Len(save(data)) - 1) : CrashInSave(k)

SpecCrash == Init /\ [][NextCrash]_vars

----------------------------------------------------------------------------
(* Reconciliation claims, checked under SpecApp *)

SnapshotCodes == Codes(inv_dict) \cup Codes(sch_dict)

Occurrences(list, code) == Cardinality({i \in 1..Len(list) : list[i].code = code})

\* stock, planned quantity and price the last run read for code
StockOf(code) ==
    IF code \in Codes(inv_dict) THEN to_number(inv_dict[IndexOf(inv_dict, code)].row.stock) ELSE 0
PlannedOf(code) ==
    IF code \in Codes(sch_dict) THEN to_number(sch_dict[IndexOf(sch_dict, code)].row.qty) ELSE 0
PriceOf(code) ==
    IF code \in Codes(sch_dict) THEN to_number(sch_dict[IndexOf(sch_dict, code)].row.price) ELSE 0

\* C1: after a run every non-empty code of either snapshot is in the surplus
\* list, in the shortage list or in neither: never in both, never twice in
\* one list; and the lists hold no other code
C1_OneListPerCode ==
    /\ <<>> \notin SnapshotCodes
    /\ \A code \in SnapshotCodes :
          Occurrences(surplus_data, code) + Occurrences(shortage_data, code) <= 1
    /\ \A i \in 1..Len(surplus_data) : surplus_data[i].code \in SnapshotCodes
    /\ \A i \in 1..Len(shortage_data) : shortage_data[i].code \in SnapshotCodes

\* a run over overlapping snapshots that filled both lists
C1_Witness ==
    /\ last.op = "run"
    /\ surplus_data # <<>>
    /\ shortage_data # <<>>
    /\ Codes(inv_dict) \cap Codes(sch_dict) # {}
    /\ Codes(sch_dict) \ Codes(inv_dict) # {}

\* C2: a code is classified by the sign of delta = stock - planned, absent
\* sides counting as 0: delta > 0 gives a surplus entry with surplus = delta,
\* delta < 0 a shortage entry with shortage = -delta, delta = 0 no entry
C2_SignOfDelta ==
    \A code \in SnapshotCodes :
        LET delta == StockOf(code) - PlannedOf(code)
        IN  /\ delta > 0 =>
                /\ \E i \in 1..Len(surplus_data) :
                      /\ surplus_data[i].code = code
                      /\ surplus_data[i].surplus = delta
                /\ Occurrences(shortage_data, code) = 0
            /\ delta < 0 =>
                /\ \E i \in 1..Len(shortage_data) :
                      /\ shortage_data[i].code = code
                      /\ shortage_data[i].shortage = 0 - delta
                /\ Occurrences(surplus_data, code) = 0
            /\ delta = 0 =>
                /\ Occurrences(surplus_data, code) = 0
                /\ Occurrences(shortage_data, code) = 0

\* a run with a balanced code (in both snapshots, stock = planned > 0) next
\* to a code that is not balanced
C2_Witness ==
    /\ last.op = "run"
    /\ \E code \in Codes(inv_dict) \cap Codes(sch_dict) :
          StockOf(code) = PlannedOf(code) /\ StockOf(code) > 0
    /\ \E code \in SnapshotCodes : StockOf(code) # PlannedOf(code)

\* C3: every shortage entry's cost is its shortage quantity times its unit
\* price, the price being the schedule row's (0 without one); a code in
\* deficit whose price is 0 still has its entry, with cost 0
C3_CostIsDeficitTimesPrice ==
    /\ \A i \in 1..Len(shortage_data) :
          /\ shortage_data[i].price = PriceOf(shortage_data[i].code)
          /\ shortage_data[i].cost = shortage_data[i].shortage * shortage_data[i].price
          /\ shortage_data[i].shortage > 0
    /\ \A code \in SnapshotCodes :
          (StockOf(code) < PlannedOf(code) /\ PriceOf(code) = 0) =>
              \E i \in 1..Len(shortage_data) :
                  /\ shortage_data[i].code = code
                  /\ shortage_data[i].cost = 0

\* a run that left a shortage entry priced 0, of a code the schedule does
\* not have, next to one with a cost
C3_Witness ==
    /\ last.op = "run"
    /\ \E i \in 1..Len(shortage_data) :
          /\ shortage_data[i].price = 0
          /\ shortage_data[i].code \notin Codes(sch_dict)
    /\ \E i \in 1..Len(shortage_data) : shortage_data[i].cost > 0

----------------------------------------------------------------------------
(* Usage-history claims, checked under Spec (C9 under SpecCrash) *)

DatesOf(recs) == {recs[j].date : j \in 1..Len(recs)}

Observations(recs) == {<<recs[j].date, recs[j].quantity>> : j \in 1..Len(recs)}

\* C4: from an empty store, whatever add_records, delete_record and clear_all
\* calls were made, a code holds at most one observation per date
C4_OneObservationPerDate ==
    \A i \in 1..Len(data) :
        \A j, k \in 1..Len(data[i].records) :
            data[i].records[j].date = data[i].records[k].date => j = k

\* a row was just written over an observation of a code that has two dates
C4_Witness ==
    /\ last.op = "upsert"
    /\ last.found
    /\ \E i \in 1..Len(data) : data[i].code = last.code /\ Len(data[i].records) = 2

\* C5: an upsert for a code and date that already has an observation puts the
\* new quantity in that observation, appends nothing, leaves the other dates
\* and the other codes alone, and stores the name of this write
C5_UpsertOverwrites ==
    [][ (pc = "add_loop" /\ Strip(Str(Head(pending).code)) \in Codes(data)) =>
         LET row == Head(pending)
             i   == IndexOf(data, Strip(Str(row.code)))
             old == data[i].records
             new == data'[i].records
         IN  cur_date \in DatesOf(old) =>
                /\ Len(data') = Len(data)
                /\ \A k \in (1..Len(data)) \ {i} : data'[k] = data[k]
                /\ data'[i].code = data[i].code
                /\ data'[i].name = Str(row.name)
                /\ Len(new) = Len(old)
                /\ \A j \in 1..Len(old) :
                      /\ new[j].date = old[j].date
                      /\ new[j].quantity = IF old[j].date = cur_date
                                           THEN to_number(row.qty)
                                           ELSE old[j].quantity
    ]_vars

\* an overwrite that changed the stored name and the quantity of one of two
\* observations
C5_Witness ==
    /\ last.op = "upsert"
    /\ last.found
    /\ last.code = <<"A">>
    /\ \E i \in 1..Len(data) :
          /\ data[i].code = <<"A">>
          /\ data[i].name = <<"y", "\"">>
          /\ \E j, k \in 1..Len(data[i].records) :
                /\ data[i].records[j].date = last.date
                /\ data[i].records[j].quantity = 20
                /\ data[i].records[k].quantity = 10

\* C6: on every store on which add_records can be called, applying one
\* upsert twice, as two add_records calls or as two rows of one batch, gives
\* the store that applying it once gives, with one observation at that date
\* holding that quantity
C6_UpsertIdempotent ==
    pc = "idle" =>
    \A row \in ScheduleRows, date \in Dates :
        \A once \in {AddRows(data, <<row>>, date)} :
            /\ AddRows(once, <<row>>, date) = once
            /\ AddRows(data, <<row, row>>, date) = once
            /\ \A i \in 1..Len(once) :
                  once[i].code = Strip(Str(row.code)) =>
                      Cardinality({j \in 1..Len(once[i].records) :
                          once[i].records[j] =
                              [date |-> date, quantity |-> to_number(row.qty)]}) = 1
            /\ Strip(Str(row.code)) # <<>> => Strip(Str(row.code)) \in Codes(once)

\* the first batch on an empty store held the row of code B twice: both were
\* applied and the code has one observation
C6_Witness ==
    /\ last.op = "upsert"
    /\ last.found
    /\ last.code = <<"B">>
    /\ file \in {Missing, <<>>, <<P("{")>>}
    /\ Len(data) = 1
    /\ Len(data[1].records) = 1
    /\ data[1].records[1].date = last.date

\* C7: delete_record on the only observation of a code removes the code, and
\* get_record_count is then the number of distinct dates of the observations
\* that remain
C7_DeleteLastObservation ==
    [][ (pc = "idle" /\ last'.op = "delete" /\ last'.code \in Codes(data)) =>
         LET code == last'.code
             recs == data[IndexOf(data, code)].records
             rest == UNION {IF data[i].code = code
                            THEN DatesOf(data[i].records) \ {last'.date}
                            ELSE DatesOf(data[i].records) : i \in 1..Len(data)}
         IN  /\ DatesOf(recs) \subseteq {last'.date} => code \notin Codes(data')
             /\ get_record_count(data') = Cardinality(rest)
             /\ get_record_count(data') <= get_record_count(data)
    ]_vars

\* a delete removed a code while another code keeps observations, and the
\* date count went down to 1
C7_Witness ==
    /\ last.op = "delete"
    /\ last.found
    /\ last.code \notin Codes(data)
    /\ data # <<>>
    /\ get_record_count(data) = 1
    /\ last.date \notin UNION {DatesOf(data[i].records) : i \in 1..Len(data)}

\* C8 as stated: a whole-store write follows each change of the in-memory
\* store before the next change, so at most one change is ever unwritten
C8_WriteAfterEveryMutation == dirty <= 1

\* C8 amended: add_records, delete_record of a stored code and clear_all end
\* with one whole-store write, so between operations nothing is unwritten
\* and the file holds the store; inside add_records the rows of the batch
\* are all applied before that write
C8_WriteAtEndOfOperation ==
    /\ pc = "idle" => (dirty = 0 /\ load(file).data = data)
    /\ pc = "add_loop" => dirty + Len(pending) <= MaxBatch
    /\ dirty <= MaxBatch

\* a batch that changed the store has been written and the file holds two
\* codes
C8_Witness ==
    /\ pc = "idle"
    /\ last.op = "save"
    /\ Len(data) = 2
    /\ file = JsonDump(data)

\* C9: UsageHistory() on a missing or unparsable file gives an empty store
\* and raises nothing; a file cut short by a crash inside the rewrite is
\* such a file
C9_LoadToleratesCorruption ==
    /\ (last.op = "construct" /\ (file = Missing \/ ~JsonLoad(file).ok)) =>
          (data = <<>> /\ ~raised)
    /\ pc = "restarted" => (~JsonLoad(file).ok /\ data = <<>> /\ ~raised)

\* a restart on a file cut after a complete first entry
C9_Witness ==
    /\ pc = "restarted"
    /\ last.op = "construct"
    /\ Len(file) > 22
    /\ data = <<>>

\* C10: saving a store and loading the file into a new store gives, for every
\* code, the same name and the same set of (date, quantity) observations
C10_RoundTrip ==
    LET loaded == load(save(data))
    IN  /\ ~loaded.raised
        /\ Codes(loaded.data) = Codes(data)
        /\ Len(loaded.data) = Len(data)
        /\ \A code \in Codes(data) :
              LET a == data[IndexOf(data, code)]
                  b == loaded.data[IndexOf(loaded.data, code)]
              IN  /\ b.name = a.name
                  /\ Observations(b.records) = Observations(a.records)

\* a store of two codes, one named with a quote, one with two observations,
\* has been written and read back by a new store object
C10_Witness ==
    /\ last.op = "construct"
    /\ file = JsonDump(data)
    /\ Len(data) = 2
    /\ \E i \in 1..2 : data[i].name = <<"y", "\"">> /\ Len(data[i].records) = 2
    /\ \E i \in 1..2 : \E j \in 1..Len(data[i].records) : data[i].records[j].quantity = 1000

----------------------------------------------------------------------------
(* Reconciliation claims on the rows read, checked under SpecApp *)

\* the non-empty trimmed codes of the rows of a file
RowCodes(rows) == {Strip(Str(rows[i].code)) : i \in 1..Len(rows)} \ {<<>>}

\* the last row of rows whose trimmed code is code
LastRow(rows, code) ==
    rows[CHOOSE i \in 1..Len(rows) :
            /\ Strip(Str(rows[i].code)) = code
            /\ \A j \in (i + 1)..Len(rows) : Strip(Str(rows[j].code)) # code]

\* C11: the lists of a run are those computed, per trimmed code, from the
\* last inventory row of the code (stock, name, unit) and the last schedule
\* row of the code (planned quantity, price); rows before the last one of a
\* code change nothing, and the run completes
C11_LastRowWins ==
    /\ \A code \in RowCodes(inv_rows) \cup RowCodes(sch_rows) :
          LET has_inv == code \in RowCodes(inv_rows)
              has_sch == code \in RowCodes(sch_rows)
              stock   == IF has_inv THEN to_number(LastRow(inv_rows, code).stock) ELSE 0
              planned == IF has_sch THEN to_number(LastRow(sch_rows, code).qty) ELSE 0
              price   == IF has_sch THEN to_number(LastRow(sch_rows, code).price) ELSE 0
              name    == IF has_inv THEN LastRow(inv_rows, code).name
                         ELSE LastRow(sch_rows, code).name
              unit    == IF has_inv THEN LastRow(inv_rows, code).unit ELSE <<>>
          IN  /\ stock > planned =>
                    /\ \E i \in 1..Len(surplus_data) :
                          surplus_data[i] =
                              [code |-> code, name |-> name, unit |-> unit, stock |-> stock,
                               scheduled |-> planned, surplus |-> stock - planned,
                               price |-> price]
                    /\ Occurrences(surplus_data, code) = 1
                    /\ Occurrences(shortage_data, code) = 0
              /\ stock < planned =>
                    /\ \E i \in 1..Len(shortage_data) :
                          shortage_data[i] =
                              [code |-> code, name |-> name, unit |-> unit, stock |-> stock,
                               scheduled |-> planned, shortage |-> planned - stock,
                               price |-> price, cost |-> (planned - stock) * price]
                    /\ Occurrences(shortage_data, code) = 1
                    /\ Occurrences(surplus_data, code) = 0
              /\ stock = planned =>
                    /\ Occurrences(surplus_data, code) = 0
                    /\ Occurrences(shortage_data, code) = 0
    /\ \A i \in 1..Len(surplus_data) :
          surplus_data[i].code \in RowCodes(inv_rows) \cup RowCodes(sch_rows)
    /\ \A i \in 1..Len(shortage_data) :
          shortage_data[i].code \in RowCodes(inv_rows) \cup RowCodes(sch_rows)

\* a run over an inventory with two rows of one trimmed code and different
\* stock and a schedule with two rows of that code and different quantities,
\* which left the code in the surplus list
C11_Witness ==
    /\ last.op = "run"
    /\ Len(inv_rows) = 2
    /\ Len(sch_rows) = 2
    /\ Cardinality(RowCodes(inv_rows) \cup RowCodes(sch_rows)) = 1
    /\ to_number(inv_rows[1].stock) # to_number(inv_rows[2].stock)
    /\ to_number(sch_rows[1].qty) # to_number(sch_rows[2].qty)
    /\ Len(surplus_data) = 1

\* the cells of the files that are missing (None), blank, or not a number
BadCells == {NoneCell, <<>>, <<" ">>, <<"1", "o">>}

\* the number a cell stands for: 0 for a bad cell
CellValue(cell) == IF cell \in BadCells THEN 0 ELSE to_number(cell)

\* C13: a run over rows with missing, blank or unparsable numeric cells
\* completes for every row: each code of the schedule has its observation of
\* the day in the store, with quantity 0 exactly when its quantity cell is
\* bad, and each list entry has stock, planned quantity and price 0 for its
\* bad cells and the cell's number for the others
C13_BadCellsAreZero ==
    last.op = "run" =>
        /\ \A code \in RowCodes(sch_rows) :
              /\ code \in Codes(data)
              /\ \E j \in 1..Len(data[IndexOf(data, code)].records) :
                    data[IndexOf(data, code)].records[j] =
                        [date |-> last.date,
                         quantity |-> CellValue(LastRow(sch_rows, code).qty)]
        /\ \A list \in {surplus_data, shortage_data} : \A i \in 1..Len(list) :
              /\ list[i].code \in RowCodes(inv_rows) =>
                    list[i].stock = CellValue(LastRow(inv_rows, list[i].code).stock)
              /\ list[i].code \in RowCodes(sch_rows) =>
                    /\ list[i].scheduled = CellValue(LastRow(sch_rows, list[i].code).qty)
                    /\ list[i].price = CellValue(LastRow(sch_rows, list[i].code).price)
        /\ \A code \in RowCodes(inv_rows) \cup RowCodes(sch_rows) :
              LET stock   == IF code \in RowCodes(inv_rows)
                             THEN CellValue(LastRow(inv_rows, code).stock) ELSE 0
                  planned == IF code \in RowCodes(sch_rows)
                             THEN CellValue(LastRow(sch_rows, code).qty) ELSE 0
              IN  stock # planned =>
                      Occurrences(surplus_data, code) + Occurrences(shortage_data, code) = 1
        /\ \A cell \in {LastRow(sch_rows, code).qty : code \in RowCodes(sch_rows)}
                       \ BadCells : to_number(cell) # 0

\* a run over an inventory row without stock cell and schedule rows with an
\* empty price cell and an unparsable quantity cell: both codes are in the
\* shortage list, the first short of its whole planned quantity at cost 0,
\* the second short of its negative stock only
C13_Witness ==
    /\ last.op = "run"
    /\ Len(shortage_data) = 2
    /\ \A i \in 1..2 :
          shortage_data[i].code \in RowCodes(inv_rows) \cap RowCodes(sch_rows)
    /\ \E i \in 1..2 :
          /\ LastRow(inv_rows, shortage_data[i].code).stock = NoneCell
          /\ LastRow(sch_rows, shortage_data[i].code).price = <<>>
          /\ shortage_data[i].shortage = 20
          /\ shortage_data[i].cost = 0
    /\ \E i \in 1..2 :
          /\ LastRow(sch_rows, shortage_data[i].code).qty = <<"1", "o">>
          /\ shortage_data[i].shortage = 5
          /\ shortage_data[i].cost = 25
    /\ \E i \in 1..Len(data) : \E j \in 1..Len(data[i].records) :
          data[i].records[j].quantity = 0

----------------------------------------------------------------------------
(* Sorting and failed runs, checked under SpecView *)

\* C12: a _run_calculation call on files of which one lacks a required
\* column ends with the error report and leaves the surplus list, the
\* shortage list, the statistics, the store and its file as they were
C12_SchemaFailureAborts ==
    [][(/\ runs' = runs + 1
        /\ \/ required_inv \ seen_headers'.inv # {}
           \/ required_sch \ seen_headers'.sch # {})
       => /\ last'.op = "run_aborted"
          /\ UNCHANGED <<surplus_data, shortage_data, stats_data, data, file>>]_vars

\* a run on a schedule without the price column, after a run that filled
\* both lists and the store
C12_Witness ==
    /\ last.op = "run_aborted"
    /\ required_sch \ seen_headers.sch = {"sch:price"}
    /\ required_inv \ seen_headers.inv = {}
    /\ inventory_path # NoneCell
    /\ schedule_path # NoneCell
    /\ surplus_data # <<>>
    /\ shortage_data # <<>>
    /\ data # <<>>
    /\ file = JsonDump(data)

\* list is in non-decreasing (ascending) or non-increasing order of column col
SortedBy(list, col, ascending) ==
    \A i, j \in 1..Len(list) :
        i < j => IF ascending THEN list[i][col] <= list[j][col]
                 ELSE list[i][col] >= list[j][col]

\* C14: right after a run the surplus list is in non-increasing order of
\* price and the shortage list in non-increasing order of cost, whatever
\* column and direction the header clicks before the run left selected
C14_DefaultOrder ==
    last.op = "run" =>
        /\ SortedBy(surplus_data, "price", FALSE)
        /\ SortedBy(shortage_data, "cost", FALSE)

\* a second run, made while the shortage header state was (cost, ascending),
\* that left two shortage entries of different cost
C14_Witness ==
    /\ last.op = "run"
    /\ runs = 2
    /\ shortage_sort_col = "cost"
    /\ shortage_sort_asc
    /\ Len(shortage_data) = 2
    /\ shortage_data[1].cost > shortage_data[2].cost

----------------------------------------------------------------------------
(* Statistics claims, checked under SpecStats *)

RECURSIVE SumOfSquares(_)
SumOfSquares(qs) == IF qs = <<>> THEN 0 ELSE Head(qs) * Head(qs) + SumOfSquares(Tail(qs))

\* the records of code in the store
RecordsOf(code) == data[IndexOf(data, code)].records

\* C16: the summary of a code with n observations q of sum S has mean S / n;
\* for n >= 2 the square of its standard deviation is the sample variance,
\* (n * sum(q * q) - S * S) / (n * (n - 1)), and for n = 1 the standard
\* deviation is 0; min and max are the least and greatest q; observations
\* 10, 20, 30 give mean 20, standard deviation 10 (variance 100), min 10,
\* max 30
C16_SampleStdDev ==
    \A stats \in {get_statistics(data)} : \A i \in 1..Len(stats) :
        LET s  == stats[i]
            qs == Quantities(RecordsOf(s.code))
            n  == Len(qs)
            S  == SumOf(qs)
        IN  /\ s.count = n
            /\ s.mean_num = S
            /\ s.var_den > 0
            /\ s.var_num >= 0
            /\ n = 1 => s.var_num = 0
            /\ n >= 2 => s.var_num * n * (n - 1) = s.var_den * (n * SumOfSquares(qs) - S * S)
            /\ s.min \in Range(qs) /\ \A q \in Range(qs) : s.min <= q
            /\ s.max \in Range(qs) /\ \A q \in Range(qs) : s.max >= q
            /\ (n = 3 /\ Range(qs) = {10, 20, 30}) =>
                  /\ s.mean_num = 20 * s.count
                  /\ s.var_num = 100 * s.var_den
                  /\ s.min = 10
                  /\ s.max = 30

\* a store with one code observed 30, 10, 20 on three days, in that order of
\* insertion, and one code observed once
C16_Witness ==
    /\ pc = "idle"
    /\ Len(data) = 2
    /\ \E i \in 1..2 : Quantities(data[i].records) = <<30, 10, 20>>
    /\ \E i \in 1..2 : Quantities(data[i].records) = <<1000>>

\* the day a date names, as the number yyyymmdd
DayNumber(date) == DigitsToNat(Remove(date, "-"))

\* C17: the latest date and latest quantity of a summary are those of the
\* code's observation with the greatest date, wherever that observation
\* stands in the order of insertion
C17_LatestIsGreatestDate ==
    \A stats \in {get_statistics(data)} : \A i \in 1..Len(stats) :
        LET recs == RecordsOf(stats[i].code)
        IN  /\ \E j \in 1..Len(recs) :
                  /\ recs[j].date = stats[i].latest_date
                  /\ recs[j].quantity = stats[i].latest_qty
            /\ \A j \in 1..Len(recs) :
                  DayNumber(recs[j].date) <= DayNumber(stats[i].latest_date)

\* a code whose observation of the earliest day was inserted last, after
\* those of the latest day and of the day before it, in that order
C17_Witness ==
    /\ last.op = "upsert"
    /\ ~last.found
    /\ last.date = Date3
    /\ \E i \in 1..Len(data) :
          /\ Len(data[i].records) = 3
          /\ data[i].records[1].date = Date2
          /\ data[i].records[2].date = Date1
          /\ data[i].records[3].date = Date3
          /\ data[i].records[3].quantity # data[i].records[1].quantity

\* C18: a call of get_detail(code) leaves the store, the order of its
\* records included, and the file as they were, and returns the code's
\* observations, each once and no other, in strictly ascending order of
\* date (nothing for a code the store does not have); this determines the
\* list, so calls on unchanged data return the same list
C18_DetailSortedNoEffect ==
    [][last'.op = "detail" =>
          LET recs == IF last'.code \in Codes(data) THEN RecordsOf(last'.code) ELSE <<>>
              out  == last'.out
          IN  /\ data' = data
              /\ file' = file
              /\ Len(out) = Len(recs)
              /\ Range(out) = Range(recs)
              /\ \A i, j \in 1..Len(out) :
                    i < j => DayNumber(out[i].date) < DayNumber(out[j].date)]_vars

\* get_detail returned three observations of a code whose records are
\* stored in another order
C18_Witness ==
    /\ last.op = "detail"
    /\ Len(last.out) = 3
    /\ last.code \in Codes(data)
    /\ RecordsOf(last.code) # last.out
    /\ RecordsOf(last.code)[3].date = Date3

----------------------------------------------------------------------------
(* The shape of the store, checked under Spec *)

\* C19: from an empty store, whatever add_records, delete_record and
\* clear_all did, no stored code is the empty string and none has an empty
\* list of records, and get_statistics returns one summary for each stored
\* code, in the order of the store, each with a count of at least 1
C19_NoEmptyEntries ==
    /\ \A i \in 1..Len(data) :
          /\ data[i].code # <<>>
          /\ data[i].records # <<>>
    /\ \A stats \in {get_statistics(data)} :
          /\ Len(stats) = Len(data)
          /\ \A i \in 1..Len(stats) :
                /\ stats[i].code = data[i].code
                /\ stats[i].count >= 1
                /\ \A j \in 1..Len(stats) : stats[j].code = stats[i].code => j = i

\* add_records has just passed over a row with a blank code, in a store of
\* two codes that lost an observation to delete_record before
C19_Witness ==
    /\ last.op = "skip"
    /\ Len(data) = 2
    /\ \E i \in 1..Len(data) : Len(data[i].records) = 2
    /\ \E i \in 1..Len(data) : Len(data[i].records) = 1

====
